---- MODULE Spec2Model ----
(***************************************************************************)
(* A model of script.js, the need-based prompt generator.                  *)
(*                                                                         *)
(* A JavaScript string is modelled as a sequence of characters, and a      *)
(* character as a one-character TLA+ string; the three non-ASCII           *)
(* characters of the templates are written "U+2019", "U+201C", "U+201D".   *)
(* An object reference into PROMPTS is modelled as the index of the        *)
(* element, and null as index 0.                                           *)
(***************************************************************************)
EXTENDS Integers, Sequences, FiniteSets, TLC

VARIABLES
    pc,             \* where the page is: "start", "loading" (main awaits loadPrompts), "ready"
    source,         \* what fetching and parsing prompts.json yields
    PROMPTS,        \* the global library array
    writes,         \* how many times loadPrompts has assigned PROMPTS
    needInput,      \* value of #needInput when a generate button was last clicked
    toneInput,      \* value of #tone
    lengthInput,    \* value of #length
    formatInput,    \* value of #format
    promptTitle,    \* #promptTitle.textContent
    promptText,     \* #promptText.textContent
    resultDisplay,  \* #result.style.display
    copyDisabled,   \* #copyBtn.disabled
    copyLabel,      \* #copyBtn.textContent
    clipboardWrites,\* navigator.clipboard.writeText calls not yet settled
    timers,         \* setTimeout callbacks not yet run
    handled,        \* the generate handler that ran last: "none", "need", "library"
    intent,         \* what detectIntent returned to it ("none": it was not called)
    match,          \* what bestLibraryMatch returned to it (0: null, or it was not called)
    uncaught,       \* whether it ended in an uncaught exception
    ret             \* the last direct call of a function and what it returned

vars == <<pc, source, PROMPTS, writes, needInput, toneInput, lengthInput, formatInput,
          promptTitle, promptText, resultDisplay, copyDisabled, copyLabel, clipboardWrites,
          timers, handled, intent, match, uncaught, ret>>

inputs == <<needInput, toneInput, lengthInput, formatInput>>
result == <<promptTitle, promptText, resultDisplay, copyDisabled>>
copying == <<copyLabel, clipboardWrites, timers>>
handler == <<handled, intent, match, uncaught>>
dom == <<inputs, result, copying, handler>>

(***************************************************************************)
(* Bounds of the model.                                                    *)
(***************************************************************************)
MaxNeedPieces == 3   \* pieces of a need given to detectIntent
MaxQueryPieces == 3  \* pieces of a need given to bestLibraryMatch
MaxArgPieces == 1    \* pieces of an argument of a render function
MaxLibrary == 2      \* elements of the library array
MaxPending == 1      \* unsettled clipboard writes, and timers not yet run

(***************************************************************************)
(* Strings.                                                                *)
(***************************************************************************)
Min(S) == CHOOSE x \in S : \A y \in S : x <= y
Max(S) == CHOOSE x \in S : \A y \in S : x >= y

UpperCase == <<"A","B","C","D","E","F","G","H","I","J","K","L","M","N","O","P","Q","R","S","T",
               "U","V","W","X","Y","Z">>
LowerCase == <<"a","b","c","d","e","f","g","h","i","j","k","l","m","n","o","p","q","r","s","t",
               "u","v","w","x","y","z">>
Digits == <<"0","1","2","3","4","5","6","7","8","9">>

Range(s) == {s[i] : i \in DOMAIN s}

\* String.prototype.toLowerCase, one character
toLowerCaseChar(c) ==
    IF c \in Range(UpperCase)
    THEN LowerCase[CHOOSE k \in DOMAIN UpperCase : UpperCase[k] = c]
    ELSE c

toLowerCase(s) == [i \in 1..Len(s) |-> toLowerCaseChar(s[i])]

\* WhiteSpace and LineTerminator: what trim() strips and what \s matches
IsWhiteSpace(c) == c \in {" ", "\t", "\n", "\r", "\f"}

\* \w of a regular expression
IsWordChar(c) == c \in Range(UpperCase) \cup Range(LowerCase) \cup Range(Digits) \cup {"_"}

\* String.prototype.trim
trim(s) ==
    LET keep == {i \in 1..Len(s) : ~IsWhiteSpace(s[i])}
    IN  IF keep = {} THEN <<>> ELSE SubSeq(s, Min(keep), Max(keep))

\* String.prototype.includes
includes(hay, tok) ==
    \E i \in 0..(Len(hay) - Len(tok)) : SubSeq(hay, i + 1, i + Len(tok)) = tok

\* s.split(/\s+/): the pieces between the maximal runs of white space
RECURSIVE split(_)
split(s) ==
    LET ws == {i \in 1..Len(s) : IsWhiteSpace(s[i])}
    IN  IF ws = {} THEN <<s>>
        ELSE LET a == Min(ws)
                 after == {i \in a..Len(s) : ~IsWhiteSpace(s[i])}
                 b == IF after = {} THEN Len(s) + 1 ELSE Min(after)
             IN  <<SubSeq(s, 1, a - 1)>> \o split(SubSeq(s, b, Len(s)))

\* Array.prototype.filter(Boolean) on an array of strings: the empty string is falsy
filterBoolean(a) == SelectSeq(a, LAMBDA t : t # <<>>)

\* the concatenation of a sequence of strings
RECURSIVE Concat(_)
Concat(ss) == IF ss = <<>> THEN <<>> ELSE Head(ss) \o Concat(Tail(ss))

\* every concatenation of at most n pieces
Texts(pieces, n) == {Concat(ps) : ps \in UNION {[1..k -> pieces] : k \in 0..n}}

(***************************************************************************)
(* normalize and detectIntent.                                             *)
(***************************************************************************)
normalize(s) == trim(toLowerCase(s))

\* \b at the gap before position i of s (i = Len(s) + 1: at the end)
WordBoundary(s, i) ==
    LET before == i > 1 /\ IsWordChar(s[i - 1])
        after == i <= Len(s) /\ IsWordChar(s[i])
    IN  before # after

\* /\b(w1|w2|...)\b/.test(s)
TestWords(words, s) ==
    \E w \in words : \E i \in 1..(Len(s) - Len(w) + 1) :
        /\ SubSeq(s, i, i + Len(w) - 1) = w
        /\ WordBoundary(s, i)
        /\ WordBoundary(s, i + Len(w))

\* /\b(ooo|out of office|out-of-office|vacation|leave|out of the office)\b/
OooWords ==
    { <<"o","o","o">>,
      <<"o","u","t"," ","o","f"," ","o","f","f","i","c","e">>,
      <<"o","u","t","-","o","f","-","o","f","f","i","c","e">>,
      <<"v","a","c","a","t","i","o","n">>,
      <<"l","e","a","v","e">>,
      <<"o","u","t"," ","o","f"," ","t","h","e"," ","o","f","f","i","c","e">> }

\* /\b(stakeholder|update|status|weekly update|progress report)\b/
StatusUpdateWords ==
    { <<"s","t","a","k","e","h","o","l","d","e","r">>,
      <<"u","p","d","a","t","e">>,
      <<"s","t","a","t","u","s">>,
      <<"w","e","e","k","l","y"," ","u","p","d","a","t","e">>,
      <<"p","r","o","g","r","e","s","s"," ","r","e","p","o","r","t">> }

\* /\b(user story|acceptance criteria|ac|feature request)\b/
ProductReqWords ==
    { <<"u","s","e","r"," ","s","t","o","r","y">>,
      <<"a","c","c","e","p","t","a","n","c","e"," ","c","r","i","t","e","r","i","a">>,
      <<"a","c">>,
      <<"f","e","a","t","u","r","e"," ","r","e","q","u","e","s","t">> }

\* /\b(prd|requirements doc|product requirements)\b/
PrdWords ==
    { <<"p","r","d">>,
      <<"r","e","q","u","i","r","e","m","e","n","t","s"," ","d","o","c">>,
      <<"p","r","o","d","u","c","t"," ","r","e","q","u","i","r","e","m","e","n","t","s">> }

\* detectIntent without its last line: nothing is returned when no pattern matches
detectIntentFallsThrough(need) ==
    LET n == normalize(need)
    IN  IF TestWords(OooWords, n) THEN "ooo"
        ELSE IF TestWords(StatusUpdateWords, n) THEN "status_update"
        ELSE IF TestWords(ProductReqWords, n) THEN "product_req"
        ELSE IF TestWords(PrdWords, n) THEN "prd"
        ELSE "undefined"

\* detectIntent with its first two tests exchanged
detectIntentStatusFirst(need) ==
    LET n == normalize(need)
    IN  IF TestWords(StatusUpdateWords, n) THEN "status_update"
        ELSE IF TestWords(OooWords, n) THEN "ooo"
        ELSE IF TestWords(ProductReqWords, n) THEN "product_req"
        ELSE IF TestWords(PrdWords, n) THEN "prd"
        ELSE "generic"

\* the four tests in the order of the source, then the fallback
detectIntent(need) ==
    LET n == normalize(need)
    IN  IF TestWords(OooWords, n) THEN "ooo"
        ELSE IF TestWords(StatusUpdateWords, n) THEN "status_update"
        ELSE IF TestWords(ProductReqWords, n) THEN "product_req"
        ELSE IF TestWords(PrdWords, n) THEN "prd"
        ELSE "generic"

(***************************************************************************)
(* The five render functions.  A template literal is the concatenation of  *)
(* its literal parts and its substitutions.                                *)
(***************************************************************************)
buildOOOPrompt(need, tone, length, format) ==
    [ title |-> <<"G","e","n","e","r","a","t","e","d",":"," ","O","u","t","-","o","f","-","o","f",
                  "f","i","c","e"," ","m","e","s","s","a","g","e">>,
      text |-> Concat(<<
        <<"Y","o","u"," ","a","r","e"," ","a","n"," ","e","x","p","e","r","t"," ","c","o","m","m",
          "u","n","i","c","a","t","i","o","n","s"," ","a","s","s","i","s","t","a","n","t",
          ".","\n","\n">>,
        <<"T","a","s","k",":","\n","C","r","e","a","t","e"," ","a","n"," ","o","u","t","-","o",
          "f","-","o","f","f","i","c","e"," ","(","O","O","O",")"," ","m","e","s","s","a",
          "g","e"," ","b","a","s","e","d"," ","o","n"," ","t","h","e"," ","u","s","e","r",
          "U+2019","s"," ","i","n","p","u","t",".","\n","\n">>,
        <<"U","s","e","r"," ","i","n","p","u","t",":","\n","\"">>, need, <<"\"","\n","\n">>,
        <<"R","e","q","u","i","r","e","m","e","n","t","s",":","\n">>,
        <<"-"," ","T","o","n","e",":"," ">>, tone, <<"\n">>,
        <<"-"," ","L","e","n","g","t","h",":"," ">>, length, <<"\n">>,
        <<"-"," ","C","h","a","n","n","e","l","/","f","o","r","m","a","t",":"," ">>, format, <<"\n">>,
        <<"-"," ","I","n","c","l","u","d","e",":"," ","d","a","t","e","s"," ","(","i","f"," ","m",
          "e","n","t","i","o","n","e","d",")",","," ","w","h","o"," ","t","o"," ","c","o",
          "n","t","a","c","t"," ","f","o","r"," ","u","r","g","e","n","t"," ","i","s","s",
          "u","e","s",","," ","a","n","d"," ","w","h","a","t"," ","t","h","e"," ","s","e",
          "n","d","e","r"," ","w","i","l","l"," ","d","o"," ","w","h","e","n"," ","b","a",
          "c","k",".","\n">>,
        <<"-"," ","I","f"," ","d","a","t","e","s"," ","a","r","e"," ","m","i","s","s","i","n","g",
          ","," ","a","s","k"," ","2"," ","q","u","i","c","k"," ","q","u","e","s","t","i",
          "o","n","s"," ","a","t"," ","t","h","e"," ","e","n","d"," ","O","R"," ","p","r",
          "o","v","i","d","e"," ","2"," ","v","a","r","i","a","n","t","s"," ","(","w","i",
          "t","h"," ","p","l","a","c","e","h","o","l","d","e","r","s",")",".","\n","\n">>,
        <<"O","u","t","p","u","t",":","\n","1",")"," ","F","i","n","a","l"," ","O","O","O"," ",
          "m","e","s","s","a","g","e"," ","(","r","e","a","d","y"," ","t","o"," ","c","o",
          "p","y","/","p","a","s","t","e",")","\n","2",")"," ","O","p","t","i","o","n",
          "a","l",":"," ","1"," ","s","h","o","r","t","e","r"," ","v","a","r","i","a","n",
          "t">> >>) ]

\* buildGenericPrompt normalizing the three settings before it echoes them
buildGenericPromptCoerced(need, tone, length, format) ==
    [ title |-> <<"G","e","n","e","r","a","t","e","d",":"," ","S","t","r","u","c","t","u","r","e",
                  "d"," ","p","r","o","m","p","t"," ","f","r","o","m"," ","y","o",
                  "u","r"," ","n","e","e","d">>,
      text |-> Concat(<<
        <<"Y","o","u"," ","a","r","e"," ","a"," ","s","e","n","i","o","r"," ","P","r","o","d","u",
          "c","t"," ","+"," ","D","e","l","i","v","e","r","y"," ","a","s","s","i","s","t",
          "a","n","t",".","\n","\n">>,
        <<"G","o","a","l",":","\n","H","e","l","p"," ","m","e"," ","w","i","t","h"," ","t","h",
          "i","s"," ","r","e","q","u","e","s","t",":","\n","\"">>, need, <<"\"","\n","\n">>,
        <<"I","n","s","t","r","u","c","t","i","o","n","s",":","\n">>,
        <<"-"," ","A","s","k"," ","u","p"," ","t","o"," ","3"," ","c","l","a","r","i","f","y","i",
          "n","g"," ","q","u","e","s","t","i","o","n","s"," ","O","N","L","Y"," ","i","f",
          " ","a","b","s","o","l","u","t","e","l","y"," ","r","e","q","u","i","r","e","d",
          "."," ","O","t","h","e","r","w","i","s","e"," ","p","r","o","c","e","e","d"," ",
          "w","i","t","h"," ","r","e","a","s","o","n","a","b","l","e"," ","a","s","s","u",
          "m","p","t","i","o","n","s"," ","(","a","n","d"," ","l","i","s","t"," ","t","h",
          "e","m",")",".","\n">>,
        <<"-"," ","K","e","e","p"," ","t","h","e"," ","t","o","n","e"," ">>, normalize(tone), <<".","\n">>,
        <<"-"," ","K","e","e","p"," ","t","h","e"," ","l","e","n","g","t","h"," ">>, normalize(length), <<".","\n">>,
        <<"-"," ","O","u","t","p","u","t"," ","i","n"," ">>, normalize(format), <<" ","f","o","r","m","a","t",".","\n","\n">>,
        <<"O","u","t","p","u","t"," ","s","t","r","u","c","t","u","r","e",":","\n">>,
        <<"1",")"," ","A","s","s","u","m","p","t","i","o","n","s"," ","(","i","f"," ","a","n","y",
          ")","\n">>,
        <<"2",")"," ","T","h","e"," ","m","a","i","n"," ","d","e","l","i","v","e","r","a","b","l",
          "e"," ","(","f","u","l","l","y"," ","w","r","i","t","t","e","n",")","\n">>,
        <<"3",")"," ","N","e","x","t"," ","s","t","e","p","s"," ","/"," ","c","h","e","c","k","l",
          "i","s","t">> >>) ]

buildGenericPrompt(need, tone, length, format) ==
    [ title |-> <<"G","e","n","e","r","a","t","e","d",":"," ","S","t","r","u","c","t","u","r","e",
                  "d"," ","p","r","o","m","p","t"," ","f","r","o","m"," ","y","o",
                  "u","r"," ","n","e","e","d">>,
      text |-> Concat(<<
        <<"Y","o","u"," ","a","r","e"," ","a"," ","s","e","n","i","o","r"," ","P","r","o","d","u",
          "c","t"," ","+"," ","D","e","l","i","v","e","r","y"," ","a","s","s","i","s","t",
          "a","n","t",".","\n","\n">>,
        <<"G","o","a","l",":","\n","H","e","l","p"," ","m","e"," ","w","i","t","h"," ","t","h",
          "i","s"," ","r","e","q","u","e","s","t",":","\n","\"">>, need, <<"\"","\n","\n">>,
        <<"I","n","s","t","r","u","c","t","i","o","n","s",":","\n">>,
        <<"-"," ","A","s","k"," ","u","p"," ","t","o"," ","3"," ","c","l","a","r","i","f","y","i",
          "n","g"," ","q","u","e","s","t","i","o","n","s"," ","O","N","L","Y"," ","i","f",
          " ","a","b","s","o","l","u","t","e","l","y"," ","r","e","q","u","i","r","e","d",
          "."," ","O","t","h","e","r","w","i","s","e"," ","p","r","o","c","e","e","d"," ",
          "w","i","t","h"," ","r","e","a","s","o","n","a","b","l","e"," ","a","s","s","u",
          "m","p","t","i","o","n","s"," ","(","a","n","d"," ","l","i","s","t"," ","t","h",
          "e","m",")",".","\n">>,
        <<"-"," ","K","e","e","p"," ","t","h","e"," ","t","o","n","e"," ">>, tone, <<".","\n">>,
        <<"-"," ","K","e","e","p"," ","t","h","e"," ","l","e","n","g","t","h"," ">>, length, <<".","\n">>,
        <<"-"," ","O","u","t","p","u","t"," ","i","n"," ">>, format, <<" ","f","o","r","m","a","t",".","\n","\n">>,
        <<"O","u","t","p","u","t"," ","s","t","r","u","c","t","u","r","e",":","\n">>,
        <<"1",")"," ","A","s","s","u","m","p","t","i","o","n","s"," ","(","i","f"," ","a","n","y",
          ")","\n">>,
        <<"2",")"," ","T","h","e"," ","m","a","i","n"," ","d","e","l","i","v","e","r","a","b","l",
          "e"," ","(","f","u","l","l","y"," ","w","r","i","t","t","e","n",")","\n">>,
        <<"3",")"," ","N","e","x","t"," ","s","t","e","p","s"," ","/"," ","c","h","e","c","k","l",
          "i","s","t">> >>) ]

buildStatusUpdatePrompt(need, tone, length, format) ==
    [ title |-> <<"G","e","n","e","r","a","t","e","d",":"," ","S","t","a","k","e","h","o","l","d",
                  "e","r"," ","s","t","a","t","u","s"," ","u","p","d","a","t",
                  "e">>,
      text |-> Concat(<<
        <<"Y","o","u"," ","a","r","e"," ","a","n"," ","e","x","e","c","u","t","i","v","e"," ","c",
          "o","m","m","u","n","i","c","a","t","i","o","n","s"," ","a","s","s","i","s","t",
          "a","n","t",".","\n","\n">>,
        <<"T","a","s","k",":","\n","C","r","a","f","t"," ","a"," ","s","t","a","t","u","s"," ",
          "u","p","d","a","t","e"," ","b","a","s","e","d"," ","o","n"," ","t","h","e"," ",
          "u","s","e","r","U+2019","s"," ","i","n","p","u","t",".","\n","\n">>,
        <<"U","s","e","r"," ","i","n","p","u","t",":","\n","\"">>, need, <<"\"","\n","\n">>,
        <<"R","e","q","u","i","r","e","m","e","n","t","s",":","\n">>,
        <<"-"," ","T","o","n","e",":"," ">>, tone, <<"\n">>,
        <<"-"," ","L","e","n","g","t","h",":"," ">>, length, <<"\n">>,
        <<"-"," ","C","h","a","n","n","e","l","/","f","o","r","m","a","t",":"," ">>, format, <<"\n">>,
        <<"-"," ","S","u","m","m","a","r","i","s","e"," ","p","r","o","g","r","e","s","s",","," ",
          "b","l","o","c","k","e","r","s",","," ","a","n","d"," ","n","e","x","t"," ","s",
          "t","e","p","s"," ","c","l","e","a","r","l","y",".","\n">>,
        <<"-"," ","H","i","g","h","l","i","g","h","t"," ","a","n","y"," ","r","i","s","k","s"," ",
          "o","r"," ","e","s","c","a","l","a","t","i","o","n","s",".","\n","\n">>,
        <<"O","u","t","p","u","t",":","\n","1",")"," ","S","t","a","t","u","s"," ","u","p","d",
          "a","t","e"," ","m","e","s","s","a","g","e"," ","(","r","e","a","d","y"," ","t",
          "o"," ","s","e","n","d",")","\n","2",")"," ","O","p","t","i","o","n","a","l",
          ":"," ","b","u","l","l","e","t"," ","p","o","i","n","t","s"," ","s","u","m","m",
          "a","r","i","s","i","n","g"," ","k","e","y"," ","t","a","k","e","a","w","a","y",
          "s">> >>) ]

buildProductReqPrompt(need, tone, length, format) ==
    [ title |-> <<"G","e","n","e","r","a","t","e","d",":"," ","U","s","e","r"," ","s","t","o","r",
                  "y"," ","/"," ","r","e","q","u","i","r","e","m","e","n","t">>,
      text |-> Concat(<<
        <<"Y","o","u"," ","a","r","e"," ","a"," ","p","r","o","d","u","c","t"," ","d","i","s","c",
          "o","v","e","r","y"," ","a","s","s","i","s","t","a","n","t",".","\n","\n">>,
        <<"T","a","s","k",":","\n","C","r","e","a","t","e"," ","a"," ","u","s","e","r"," ","s",
          "t","o","r","y"," ","o","r"," ","r","e","q","u","i","r","e","m","e","n","t"," ",
          "b","a","s","e","d"," ","o","n"," ","t","h","e"," ","u","s","e","r","U+2019",
          "s"," ","i","n","p","u","t",".","\n","\n">>,
        <<"U","s","e","r"," ","i","n","p","u","t",":","\n","\"">>, need, <<"\"","\n","\n">>,
        <<"R","e","q","u","i","r","e","m","e","n","t","s",":","\n">>,
        <<"-"," ","T","o","n","e",":"," ">>, tone, <<"\n">>,
        <<"-"," ","L","e","n","g","t","h",":"," ">>, length, <<"\n">>,
        <<"-"," ","C","h","a","n","n","e","l","/","f","o","r","m","a","t",":"," ">>, format, <<"\n">>,
        <<"-"," ","U","s","e"," ","t","h","e"," ","t","e","m","p","l","a","t","e",":"," ",
          "U+201C","A","s"," ","a"," ","[","p","e","r","s","o","n","a","]",","," ","I",
          " ","w","a","n","t"," ","[","n","e","e","d","]"," ","s","o"," ","t","h","a","t",
          " ","[","r","e","a","s","o","n","]","U+201D",".","\n">>,
        <<"-"," ","D","e","f","i","n","e"," ","a","c","c","e","p","t","a","n","c","e"," ","c","r",
          "i","t","e","r","i","a"," ","c","l","e","a","r","l","y",".","\n","\n">>,
        <<"O","u","t","p","u","t",":","\n","1",")"," ","U","s","e","r"," ","s","t","o","r","y",
          " ","s","t","a","t","e","m","e","n","t","\n","2",")"," ","A","c","c","e","p",
          "t","a","n","c","e"," ","c","r","i","t","e","r","i","a"," ","(","b","u","l","l",
          "e","t","e","d",")">> >>) ]

buildPrdPrompt(need, tone, length, format) ==
    [ title |-> <<"G","e","n","e","r","a","t","e","d",":"," ","P","r","o","d","u","c","t"," ","R",
                  "e","q","u","i","r","e","m","e","n","t","s"," ","D","o","c","u",
                  "m","e","n","t"," ","(","P","R","D",")">>,
      text |-> Concat(<<
        <<"Y","o","u"," ","a","r","e"," ","a"," ","p","r","o","d","u","c","t"," ","s","t","r","a",
          "t","e","g","y"," ","a","s","s","i","s","t","a","n","t",".","\n","\n">>,
        <<"T","a","s","k",":","\n","D","r","a","f","t"," ","a"," ","P","r","o","d","u","c","t",
          " ","R","e","q","u","i","r","e","m","e","n","t","s"," ","D","o","c","u","m","e",
          "n","t"," ","(","P","R","D",")"," ","b","a","s","e","d"," ","o","n"," ","t","h",
          "e"," ","u","s","e","r","U+2019","s"," ","i","n","p","u","t",".","\n","\n">>,
        <<"U","s","e","r"," ","i","n","p","u","t",":","\n","\"">>, need, <<"\"","\n","\n">>,
        <<"R","e","q","u","i","r","e","m","e","n","t","s",":","\n">>,
        <<"-"," ","T","o","n","e",":"," ">>, tone, <<"\n">>,
        <<"-"," ","L","e","n","g","t","h",":"," ">>, length, <<"\n">>,
        <<"-"," ","C","h","a","n","n","e","l","/","f","o","r","m","a","t",":"," ">>, format, <<"\n">>,
        <<"-"," ","I","n","c","l","u","d","e"," ","s","e","c","t","i","o","n","s",":"," ","P","r",
          "o","b","l","e","m"," ","s","t","a","t","e","m","e","n","t",","," ","G","o","a",
          "l","s",","," ","S","c","o","p","e"," ","(","i","n","/","o","u","t",")",","," ",
          "U","s","e","r"," ","s","t","o","r","i","e","s",","," ","S","u","c","c","e","s",
          "s"," ","m","e","t","r","i","c","s",","," ","R","i","s","k","s",".","\n">>,
        <<"-"," ","S","u","m","m","a","r","i","s","e"," ","s","t","a","k","e","h","o","l","d","e",
          "r","s"," ","a","n","d"," ","t","i","m","e","l","i","n","e"," ","i","f"," ","a",
          "p","p","l","i","c","a","b","l","e",".","\n","\n">>,
        <<"O","u","t","p","u","t",":","\n","1",")"," ","P","R","D"," ","o","u","t","l","i","n",
          "e","\n","2",")"," ","C","h","e","c","k","l","i","s","t"," ","o","f"," ","n",
          "e","x","t"," ","s","t","e","p","s">> >>) ]

(***************************************************************************)
(* The library.  An element of the parsed array is null or an object       *)
(* holding some of the six fields of a prompt record.                      *)
(***************************************************************************)
JsNull == [type |-> "null"]

\* p.k || '' on an object: a missing field and an empty one read alike
Field(p, k) == IF k \in DOMAIN p THEN p[k] ELSE <<>>

\* the haystack built without the spaces between the three fields
haystackUnseparated(p) ==
    normalize(Concat(<< Field(p, "title"), Field(p, "instruction"), Field(p, "output") >>))

\* normalize(`${p.title || ''} ${p.instruction || ''} ${p.output || ''}`)
haystack(p) ==
    normalize(Concat(<< Field(p, "title"), <<" ">>, Field(p, "instruction"), <<" ">>,
                        Field(p, "output") >>))

\* the score over the set of tokens instead of the list
scoreDistinct(tokens, hay) ==
    Cardinality({t \in Range(tokens) : includes(hay, t)})

\* the inner loop: score += 1 for each token of the list that hay includes
RECURSIVE score(_, _)
score(tokens, hay) ==
    IF tokens = <<>> THEN 0
    ELSE (IF includes(hay, Head(tokens)) THEN 1 ELSE 0) + score(Tail(tokens), hay)

\* the comparison made non-strict: a later record with an equal score would win
betterLastWins(s, bestScore) == s >= bestScore

\* if (score > bestScore)
better(s, bestScore) == s > bestScore

\* the outer loop from element i on; scores collects the score computed for each
\* element.  Reading p.title of null throws a TypeError, which ends the call.
RECURSIVE matchLoop(_, _, _, _, _)
matchLoop(tokens, i, best, bestScore, scores) ==
    IF i > Len(PROMPTS)
    THEN [threw |-> FALSE, best |-> IF bestScore > 0 THEN best ELSE 0, scores |-> scores]
    ELSE IF PROMPTS[i].type = "null"
    THEN [threw |-> TRUE, best |-> 0, scores |-> scores]
    ELSE LET s == score(tokens, haystack(PROMPTS[i]))
         IN  IF better(s, bestScore)
             THEN matchLoop(tokens, i + 1, i, s, Append(scores, s))
             ELSE matchLoop(tokens, i + 1, best, bestScore, Append(scores, s))

bestLibraryMatch(need) ==
    LET q == normalize(need)
    IN  IF q = <<>> \/ Len(PROMPTS) = 0
        THEN [threw |-> FALSE, best |-> 0, scores |-> <<>>]
        ELSE matchLoop(filterBoolean(split(q)), 1, 0, 0, <<>>)

formatLibraryPrompt(p) ==
    Concat(<<
        <<"I","n","s","t","r","u","c","t","i","o","n",":","\n">>, Field(p, "instruction"), <<"\n","\n">>,
        <<"I","n","p","u","t","s",":","\n">>, Field(p, "inputs"), <<"\n","\n">>,
        <<"O","u","t","p","u","t",":","\n">>, Field(p, "output"), <<"\n","\n">>,
        <<"S","u","c","c","e","s","s"," ","c","r","i","t","e","r","i","a",":","\n">>, Field(p, "success_criteria"), <<"\n","\n">>,
        <<"F","o","l","l","o","w","-","u","p",":","\n">>, Field(p, "follow_up") >>)

(***************************************************************************)
(* The page before DOMContentLoaded: nothing is shown, and the copy button  *)
(* that renderResult enables is disabled.                                  *)
(***************************************************************************)
Idle ==
    /\ pc = "start"
    /\ writes = 0
    /\ promptTitle = <<>>
    /\ promptText = <<>>
    /\ resultDisplay = "none"
    /\ copyDisabled = TRUE
    /\ copyLabel = "Copy"
    /\ clipboardWrites = 0
    /\ timers = 0
    /\ handled = "none"
    /\ intent = "none"
    /\ match = 0
    /\ uncaught = FALSE
    /\ ret = [fn |-> "none"]


(***************************************************************************)
(* What the page is given: the outcome of fetching prompts.json, and what  *)
(* the user types and selects.                                             *)
(***************************************************************************)
PlanningRecord ==
    [type |-> "object", title |-> <<"B"," ","p","l","a","n","n","i","n","g">>, instruction |-> <<"p","l","a","n"," ","a"," ",
                                                                   "s",
                                                                   "p",
                                                                   "r",
                                                                   "i",
                                                                   "n",
                                                                   "t">>,
      inputs |-> <<"t","e","a","m">>, output |-> <<"b","a","c","k","l","o","g">>]

Elements == {JsNull, PlanningRecord}

Sources ==
    { [kind |-> "unreachable"], [kind |-> "unparseable"],
      [kind |-> "parsed", data |-> JsNull], [kind |-> "parsed", data |-> [type |-> "object"]] }
    \cup { [kind |-> "parsed", data |-> [type |-> "array", items |-> items]] :
              items \in UNION {[1..k -> Elements] : k \in 0..MaxLibrary} }

\* "", " \t", " OOO update ", "Status", "x ac", "prd", "Plan"
TypedNeeds ==
    { <<>>,
      <<" ","\t">>,
      <<" ","O","O","O"," ","u","p","d","a","t","e"," ">>,
      <<"S","t","a","t","u","s">>,
      <<"x"," ","a","c">>,
      <<"p","r","d">>,
      <<"P","l","a","n">> }

Tones ==
    { <<"f","r","i","e","n","d","l","y">>,
      <<"d","i","r","e","c","t">> }
Lengths == { <<"s","h","o","r","t">> }
Formats == { <<"e","m","a","i","l">> }

(***************************************************************************)
(* The page: main, loadPrompts and the three click handlers.               *)
(***************************************************************************)
\* the script's last line: main runs once the DOM is ready, and starts loadPrompts
DOMContentLoaded ==
    /\ pc = "start"
    /\ pc' = "loading"
    /\ UNCHANGED <<source, PROMPTS, writes, dom, ret>>

\* loadPrompts when fetch and res.json() both resolve; main then registers the handlers
LoadPromptsTry ==
    /\ pc = "loading"
    /\ source.kind = "parsed"
    /\ PROMPTS' = IF source.data.type = "array" THEN source.data.items ELSE <<>>
    /\ writes' = writes + 1
    /\ pc' = "ready"
    /\ UNCHANGED <<source, dom, ret>>

\* loadPrompts when fetch or res.json() rejects; main then registers the handlers
LoadPromptsCatch ==
    /\ pc = "loading"
    /\ source.kind \in {"unreachable", "unparseable"}
    /\ PROMPTS' = <<>>
    /\ writes' = writes + 1
    /\ pc' = "ready"
    /\ UNCHANGED <<source, dom, ret>>

\* main adding the listeners without awaiting loadPrompts
handlersRegisteredUnawaited == pc \in {"loading", "ready"}

\* main adds the three click listeners after `await loadPrompts()` has returned
handlersRegistered == pc = "ready"

renderResult(title, text) ==
    /\ promptTitle' = title
    /\ promptText' = text
    /\ resultDisplay' = "block"
    /\ copyDisabled' = FALSE

\* the switch with the product_req case sent to the PRD template
generateMisrouted(detected, need, tone, length, format) ==
    CASE detected = "ooo" -> buildOOOPrompt(need, tone, length, format)
      [] detected = "status_update" -> buildStatusUpdatePrompt(need, tone, length, format)
      [] detected = "product_req" -> buildPrdPrompt(need, tone, length, format)
      [] detected = "prd" -> buildPrdPrompt(need, tone, length, format)
      [] OTHER -> buildGenericPrompt(need, tone, length, format)

\* the switch of the generate-from-need handler
generate(detected, need, tone, length, format) ==
    CASE detected = "ooo" -> buildOOOPrompt(need, tone, length, format)
      [] detected = "status_update" -> buildStatusUpdatePrompt(need, tone, length, format)
      [] detected = "product_req" -> buildProductReqPrompt(need, tone, length, format)
      [] detected = "prd" -> buildPrdPrompt(need, tone, length, format)
      [] OTHER -> buildGenericPrompt(need, tone, length, format)

TellMeTitle == <<"T","e","l","l"," ","m","e"," ","w","h","a","t"," ","y","o","u"," ","n","e","e",
                 "d">>
TellMeText == <<"T","y","p","e"," ","a"," ","s","h","o","r","t"," ","d","e","s","c","r","i","p",
                "t","i","o","n"," ","a","b","o","v","e"," ","(","e",".","g",".",",",
                " ","U+201C","G","e","n","e","r","a","t","e"," ","a","n"," ","O",
                "O","O"," ","m","e","s","s","a","g","e"," ","f","o","r"," ","n","e",
                "x","t"," ","w","e","e","k",".",".",".","U+201D"," ",")",".">>

NoMatchTitle == <<"N","o"," ","l","i","b","r","a","r","y"," ","m","a","t","c","h"," ","f","o","u",
                  "n","d">>
NoMatchText == <<"I"," ","c","o","u","l","d","n","U+2019","t"," ","f","i","n","d"," ","a"," ","c",
                 "l","o","s","e"," ","m","a","t","c","h"," ","i","n"," ","t","h",
                 "e"," ","c","u","r","r","e","n","t"," ","p","r","o","m","p","t",
                 " ","l","i","b","r","a","r","y","."," ","U","s","e"," ","U+201C",
                 "G","e","n","e","r","a","t","e"," ","f","r","o","m"," ","m","y",
                 " ","n","e","e","d","U+201D"," ","i","n","s","t","e","a","d",".">>

\* the handler without its test for an empty need
generateFromNeedUnchecked(typed, tone, length, format) ==
    LET need == trim(typed)
        generated == generate(detectIntent(need), need, tone, length, format)
    IN  /\ intent' = detectIntent(need)
        /\ renderResult(generated.title, generated.text)

\* the generate-from-need handler, from the values of the four inputs
generateFromNeed(typed, tone, length, format) ==
    LET need == trim(typed)
        generated == generate(detectIntent(need), need, tone, length, format)
    IN  IF need = <<>>
        THEN /\ intent' = "none"
             /\ renderResult(TellMeTitle, TellMeText)
        ELSE /\ intent' = detectIntent(need)
             /\ renderResult(generated.title, generated.text)

GenerateFromNeedClick ==
    /\ handlersRegistered
    /\ \E typed \in TypedNeeds, tone \in Tones, length \in Lengths, format \in Formats :
          /\ needInput' = typed
          /\ toneInput' = tone
          /\ lengthInput' = length
          /\ formatInput' = format
          /\ generateFromNeed(typed, tone, length, format)
    /\ handled' = "need"
    /\ match' = 0
    /\ uncaught' = FALSE
    /\ UNCHANGED <<pc, source, PROMPTS, writes, copying, ret>>

\* match.title || 'Library Prompt'
titleOr(p) == IF Field(p, "title") # <<>> THEN p.title ELSE <<"L","i","b","r","a","r","y"," ","P",
                                                              "r",
                                                              "o",
                                                              "m",
                                                              "p",
                                                              "t">>

\* the generate-from-library handler, from the value of the need input
generateFromLibrary(typed) ==
    LET need == trim(typed)
        found == bestLibraryMatch(need)
    IN  IF found.threw
        THEN /\ uncaught' = TRUE
             /\ match' = 0
             /\ UNCHANGED result
        ELSE /\ uncaught' = FALSE
             /\ match' = found.best
             /\ IF found.best = 0
                THEN renderResult(NoMatchTitle, NoMatchText)
                ELSE renderResult(titleOr(PROMPTS[found.best]),
                                  formatLibraryPrompt(PROMPTS[found.best]))

GenerateFromLibraryClick ==
    /\ handlersRegistered
    /\ \E typed \in TypedNeeds :
          /\ needInput' = typed
          /\ generateFromLibrary(typed)
    /\ handled' = "library"
    /\ intent' = "none"
    /\ UNCHANGED <<pc, source, PROMPTS, writes, toneInput, lengthInput, formatInput,
                   copying, ret>>

\* the copy handler up to its await: writeText is called with the text shown
CopyClick ==
    /\ handlersRegistered
    /\ ~copyDisabled
    /\ clipboardWrites < MaxPending
    /\ clipboardWrites' = clipboardWrites + 1
    /\ UNCHANGED <<pc, source, PROMPTS, writes, inputs, result, copyLabel, timers, handler,
                   ret>>

\* writeText resolves: the button says 'Copied!' and a 900 ms timer is set
ClipboardResolved ==
    /\ clipboardWrites > 0
    /\ timers < MaxPending
    /\ clipboardWrites' = clipboardWrites - 1
    /\ copyLabel' = "Copied!"
    /\ timers' = timers + 1
    /\ UNCHANGED <<pc, source, PROMPTS, writes, inputs, result, handler, ret>>

\* writeText rejects: the catch block only warns
ClipboardRejected ==
    /\ clipboardWrites > 0
    /\ clipboardWrites' = clipboardWrites - 1
    /\ UNCHANGED <<pc, source, PROMPTS, writes, inputs, result, copyLabel, timers, handler,
                   ret>>

\* the timer's callback
CopyTimeout ==
    /\ timers > 0
    /\ timers' = timers - 1
    /\ copyLabel' = "Copy"
    /\ UNCHANGED <<pc, source, PROMPTS, writes, inputs, result, clipboardWrites, handler,
                   ret>>

(***************************************************************************)
(* detectIntent called directly on a need.                                 *)
(***************************************************************************)
\* keywords of the four pattern sets, letters that extend a word, separators, and
\* regular-expression metacharacters
DetectPieces ==
    { <<"O","O","O">>, <<"o","u","t"," ","o","f"," ","o","f","f","i","c","e">>, <<"L","e","a","v","e">>,
      <<"u","p","d","a","t","e">>, <<"a","c">>, <<"p","r","d">>,
      <<"x">>, <<"_">>, <<" ">>, <<"\t">>, <<"-">>, <<".","*">> }

InitDetect ==
    /\ Idle
    /\ source = [kind |-> "unread"]
    /\ PROMPTS = <<>>
    /\ toneInput = <<>>
    /\ lengthInput = <<>>
    /\ formatInput = <<>>
    /\ needInput \in Texts(DetectPieces, MaxNeedPieces)

CallDetectIntent ==
    /\ ret.fn = "none"
    /\ ret' = [fn |-> "detectIntent", value |-> detectIntent(needInput)]
    /\ UNCHANGED <<pc, source, PROMPTS, writes, dom>>

NextDetect == CallDetectIntent

SpecDetect == InitDetect /\ [][NextDetect]_vars

Intents == {"ooo", "status_update", "product_req", "prd", "generic"}

PatternOrder == <<OooWords, StatusUpdateWords, ProductReqWords, PrdWords>>
TagOrder == <<"ooo", "status_update", "product_req", "prd">>

\* the pattern sets, by their place in the order, that match the normalized need
Matching(need) == {k \in 1..4 : TestWords(PatternOrder[k], normalize(need))}

\* C1: detectIntent returns the tag of the first pattern set, in the order ooo,
\* status_update, product_req, prd, that matches the normalized need; a need that
\* matches several sets gets the earliest of them.
C1_FirstMatchWins ==
    ret.fn = "detectIntent" =>
        (Matching(needInput) # {} => ret.value = TagOrder[Min(Matching(needInput))])

\* a need that matches both an ooo and a status_update keyword was classified ooo
C1_Witness ==
    /\ ret.fn = "detectIntent"
    /\ {1, 2} \subseteq Matching(needInput)
    /\ needInput # normalize(needInput)
    /\ ret.value = "ooo"

\* C2: detectIntent returns a value of the closed set of intents for every string,
\* generic exactly when no pattern set matches the normalized need, and generic for
\* the empty and the white-space-only string.
C2_TotalGenericFallback ==
    ret.fn = "detectIntent" =>
        /\ ret.value \in Intents
        /\ (ret.value = "generic") <=> (Matching(needInput) = {})
        /\ trim(needInput) = <<>> => ret.value = "generic"

\* a white-space-only need was classified generic
C2_Witness ==
    /\ ret.fn = "detectIntent"
    /\ needInput # <<>>
    /\ trim(needInput) = <<>>
    /\ ret.value = "generic"

(***************************************************************************)
(* A render function called directly on four strings.                      *)
(***************************************************************************)
\* characters that occur in no template: where they occur in a text, an argument was echoed
ArgPieces == { <<"Z">>, <<"~">> }

InitBuild ==
    /\ Idle
    /\ source = [kind |-> "unread"]
    /\ PROMPTS = <<>>
    /\ needInput \in Texts(ArgPieces, MaxArgPieces)
    /\ toneInput \in Texts(ArgPieces, MaxArgPieces)
    /\ lengthInput \in Texts(ArgPieces, MaxArgPieces)
    /\ formatInput \in Texts(ArgPieces, MaxArgPieces)

CallBuildOOOPrompt ==
    /\ ret.fn = "none"
    /\ ret' = [fn |-> "buildOOOPrompt",
               value |-> buildOOOPrompt(needInput, toneInput, lengthInput, formatInput)]
    /\ UNCHANGED <<pc, source, PROMPTS, writes, dom>>

CallBuildStatusUpdatePrompt ==
    /\ ret.fn = "none"
    /\ ret' = [fn |-> "buildStatusUpdatePrompt",
               value |-> buildStatusUpdatePrompt(needInput, toneInput, lengthInput, formatInput)]
    /\ UNCHANGED <<pc, source, PROMPTS, writes, dom>>

CallBuildProductReqPrompt ==
    /\ ret.fn = "none"
    /\ ret' = [fn |-> "buildProductReqPrompt",
               value |-> buildProductReqPrompt(needInput, toneInput, lengthInput, formatInput)]
    /\ UNCHANGED <<pc, source, PROMPTS, writes, dom>>

CallBuildPrdPrompt ==
    /\ ret.fn = "none"
    /\ ret' = [fn |-> "buildPrdPrompt",
               value |-> buildPrdPrompt(needInput, toneInput, lengthInput, formatInput)]
    /\ UNCHANGED <<pc, source, PROMPTS, writes, dom>>

CallBuildGenericPrompt ==
    /\ ret.fn = "none"
    /\ ret' = [fn |-> "buildGenericPrompt",
               value |-> buildGenericPrompt(needInput, toneInput, lengthInput, formatInput)]
    /\ UNCHANGED <<pc, source, PROMPTS, writes, dom>>

NextBuild ==
    \/ CallBuildOOOPrompt
    \/ CallBuildStatusUpdatePrompt
    \/ CallBuildProductReqPrompt
    \/ CallBuildPrdPrompt
    \/ CallBuildGenericPrompt

SpecBuild == InitBuild /\ [][NextBuild]_vars

BuildFns ==
    { "buildOOOPrompt", "buildStatusUpdatePrompt", "buildProductReqPrompt",
      "buildPrdPrompt", "buildGenericPrompt" }

\* the render function of that name
Build(fn, need, tone, length, format) ==
    CASE fn = "buildOOOPrompt" -> buildOOOPrompt(need, tone, length, format)
      [] fn = "buildStatusUpdatePrompt" -> buildStatusUpdatePrompt(need, tone, length, format)
      [] fn = "buildProductReqPrompt" -> buildProductReqPrompt(need, tone, length, format)
      [] fn = "buildPrdPrompt" -> buildPrdPrompt(need, tone, length, format)
      [] fn = "buildGenericPrompt" -> buildGenericPrompt(need, tone, length, format)

\* the first place from `from` on where w occurs in s, as a 0-based offset; -1 if
\* there is none, or if from is -1
First(w, s, from) ==
    LET at == {i \in from..(Len(s) - Len(w)) : SubSeq(s, i + 1, i + Len(w)) = w}
    IN  IF from < 0 \/ at = {} THEN -1 ELSE Min(at)

\* a, b, c and d occur in s in this order, without overlapping: taking the first
\* occurrence each time finds such places whenever there are any
InOrder(s, a, b, c, d) ==
    LET i == First(a, s, 0)
        j == First(b, s, IF i < 0 THEN -1 ELSE i + Len(a))
        k == First(c, s, IF j < 0 THEN -1 ELSE j + Len(b))
    IN  First(d, s, IF k < 0 THEN -1 ELSE k + Len(c)) >= 0

\* C6: each render function returns a text holding need, tone, length and format
\* verbatim, in this order, between literal parts that do not depend on the
\* arguments, and a title that does not depend on the arguments.
C6_ValuesEchoedVerbatim ==
    ret.fn \in BuildFns =>
        LET blank == Build(ret.fn, <<>>, <<>>, <<>>, <<>>)
        IN  /\ ret.value.title = blank.title
            /\ InOrder(ret.value.text, needInput, toneInput, lengthInput, formatInput)
            /\ Len(ret.value.text) = Len(blank.text) + Len(needInput) + Len(toneInput)
                                        + Len(lengthInput) + Len(formatInput)

\* a render function was called on four non-empty strings that are not all alike
C6_Witness ==
    /\ ret.fn \in BuildFns
    /\ needInput # <<>> /\ toneInput # <<>> /\ lengthInput # <<>> /\ formatInput # <<>>
    /\ toneInput # normalize(toneInput)
    /\ needInput # toneInput

(***************************************************************************)
(* bestLibraryMatch called directly on a need, over a library of prompt    *)
(* records.                                                                *)
(***************************************************************************)
\* "Plan", "abcd", " "
QueryPieces == { <<"P","l","a","n">>, <<"a","b","c","d">>, <<" ">> }

RecordPool ==
    { [type |-> "object", title |-> <<"A","b">>, instruction |-> <<"c","d">>, output |-> <<"p","l","a","n">>],
      [type |-> "object", title |-> <<"B"," ","p","l","a","n","n","i","n","g">>],
      [type |-> "object", title |-> <<"x">>, inputs |-> <<"a","b","c","d">>, success_criteria |-> <<"p","l","a",
                                                                                     "n">>,
        follow_up |-> <<"p","l","a","n">>],
      [type |-> "object", output |-> <<"a","b","c","d"," ","P","l","a","n">>, inputs |-> <<"x">>],
      [type |-> "object"] }

Libraries(pool, n) == UNION {[1..k -> pool] : k \in 0..n}

InitMatch ==
    /\ Idle
    /\ source = [kind |-> "unread"]
    /\ PROMPTS \in Libraries(RecordPool, MaxLibrary)
    /\ needInput \in Texts(QueryPieces, MaxQueryPieces)
    /\ toneInput = <<>>
    /\ lengthInput = <<>>
    /\ formatInput = <<>>

CallBestLibraryMatch ==
    /\ ret.fn = "none"
    /\ LET m == bestLibraryMatch(needInput)
       IN  ret' = [fn |-> "bestLibraryMatch", value |-> m.best, scores |-> m.scores]
    /\ UNCHANGED <<pc, source, PROMPTS, writes, dom>>

NextMatch == CallBestLibraryMatch

SpecMatch == InitMatch /\ [][NextMatch]_vars

\* the white-space-split token list of the normalized need
Tokens(need) == filterBoolean(split(normalize(need)))

\* the positions of the token list whose token is a substring of text
Hits(need, text) ==
    LET tokens == Tokens(need)
    IN  {j \in 1..Len(tokens) : includes(text, tokens[j])}

\* C3: the score of a record is the number of positions of the token list whose
\* token is a substring of the record's haystack; a token repeated in the need is
\* counted at each of its positions.
C3_ScoreCountsPositions ==
    ret.fn = "bestLibraryMatch" =>
        \A i \in DOMAIN ret.scores :
            ret.scores[i] = Cardinality(Hits(needInput, haystack(PROMPTS[i])))

\* a need repeating a token was scored: some record got one point per repetition
C3_Witness ==
    /\ ret.fn = "bestLibraryMatch"
    /\ \E j, k \in 1..Len(Tokens(needInput)) :
          j # k /\ Tokens(needInput)[j] = Tokens(needInput)[k]
    /\ \E i \in DOMAIN ret.scores : ret.scores[i] = Len(Tokens(needInput))

\* the score of library element i, counted position by position
Points(i) == Cardinality(Hits(needInput, haystack(PROMPTS[i])))

\* C4: bestLibraryMatch returns null exactly when no record scores above 0;
\* otherwise it returns the earliest record among those with the maximum score.
C4_FirstMaximumWins ==
    ret.fn = "bestLibraryMatch" =>
        /\ (ret.value = 0) <=> (\A i \in DOMAIN PROMPTS : Points(i) = 0)
        /\ ret.value # 0 =>
            /\ ret.value \in DOMAIN PROMPTS
            /\ \A i \in DOMAIN PROMPTS : Points(i) <= Points(ret.value)
            /\ \A i \in 1..(ret.value - 1) : Points(i) < Points(ret.value)

\* two records tied at the maximum score, and the earlier one was returned
C4_Witness ==
    /\ ret.fn = "bestLibraryMatch"
    /\ ret.value # 0
    /\ \E i \in DOMAIN PROMPTS : i > ret.value /\ Points(i) = Points(ret.value)

\* the lowercased title, instruction and output of a record, one by one
OwnTexts(p) ==
    { toLowerCase(Field(p, "title")), toLowerCase(Field(p, "instruction")),
      toLowerCase(Field(p, "output")) }

\* the score of library element i when each field is searched on its own
OwnPoints(i) ==
    LET tokens == Tokens(needInput)
        texts == OwnTexts(PROMPTS[i])
    IN  Cardinality({j \in 1..Len(tokens) : \E text \in texts : includes(text, tokens[j])})

\* C10: a token adds to a record's score only if it is a substring of the lowercased
\* title, instruction or output taken on its own, never of text spanning two fields;
\* scores and the record returned are decided by these three fields alone.
C10_FieldsMatchedOneByOne ==
    ret.fn = "bestLibraryMatch" =>
        /\ \A i \in DOMAIN ret.scores : ret.scores[i] = OwnPoints(i)
        /\ ret.value # 0 =>
            /\ \A i \in DOMAIN PROMPTS : OwnPoints(i) <= OwnPoints(ret.value)
            /\ \A i \in 1..(ret.value - 1) : OwnPoints(i) < OwnPoints(ret.value)
        /\ ret.value = 0 => \A i \in DOMAIN PROMPTS : OwnPoints(i) = 0

\* a token equal to the end of one field followed by the start of the next was not
\* counted for that record, and a record matching only in its inputs scored 0
C10_Witness ==
    /\ ret.fn = "bestLibraryMatch"
    /\ \E i \in DOMAIN ret.scores :
          /\ ret.scores[i] = 0
          /\ \E t \in Range(Tokens(needInput)) :
                includes(toLowerCase(Field(PROMPTS[i], "title")
                                     \o Field(PROMPTS[i], "instruction")), t)
    /\ \E i \in DOMAIN ret.scores :
          /\ ret.scores[i] = 0
          /\ \E t \in Range(Tokens(needInput)) :
                includes(toLowerCase(Field(PROMPTS[i], "inputs")), t)

(***************************************************************************)
(* The page as a whole.                                                    *)
(***************************************************************************)
Init ==
    /\ Idle
    /\ source \in Sources
    /\ PROMPTS = <<>>
    /\ needInput = <<>>
    /\ toneInput = <<>>
    /\ lengthInput = <<>>
    /\ formatInput = <<>>

Next ==
    \/ DOMContentLoaded
    \/ LoadPromptsTry
    \/ LoadPromptsCatch
    \/ GenerateFromNeedClick
    \/ GenerateFromLibraryClick
    \/ CopyClick
    \/ ClipboardResolved
    \/ ClipboardRejected
    \/ CopyTimeout

Spec == Init /\ [][Next]_vars

\* what a failed load is: the source is unreachable, its body does not parse, or
\* the parsed document is not an array of prompt records
WellFormed(doc) ==
    /\ doc.type = "array"
    /\ \A i \in DOMAIN doc.items : doc.items[i].type = "object"

LoadFailed == source.kind # "parsed" \/ ~WellFormed(source.data)

\* C5: after a failed load every generate-from-library request ends, without an
\* uncaught exception, in the 'No library match found' result.
C5_FailedLoadYieldsNoMatch ==
    (pc = "ready" /\ LoadFailed /\ handled = "library") =>
        /\ ~uncaught
        /\ promptTitle = NoMatchTitle
        /\ promptText = NoMatchText

\* the array loadPrompts is given, or the empty array
Loaded ==
    IF source.kind = "parsed" /\ source.data.type = "array"
    THEN source.data.items
    ELSE <<>>

\* C7: PROMPTS is assigned once, by the startup load, and keeps that value; no
\* handler has run, and none can run, before the load has completed.
C7_LibraryWrittenOnce ==
    /\ writes <= 1
    /\ (pc = "ready") <=> (writes = 1)
    /\ pc = "ready" => PROMPTS = Loaded
    /\ pc # "ready" =>
        /\ PROMPTS = <<>>
        /\ handled = "none"
        /\ resultDisplay = "none"
        /\ clipboardWrites = 0 /\ timers = 0 /\ copyLabel = "Copy"

\* all three handlers have run on a loaded library, which is still as loaded
C7_Witness ==
    /\ pc = "ready"
    /\ PROMPTS # <<>>
    /\ handled = "library" /\ match # 0
    /\ copyLabel = "Copied!"

\* each intent's render function, the generic one for any other value
RenderFunctionOf(detected) ==
    CASE detected = "ooo" -> "buildOOOPrompt"
      [] detected = "status_update" -> "buildStatusUpdatePrompt"
      [] detected = "product_req" -> "buildProductReqPrompt"
      [] detected = "prd" -> "buildPrdPrompt"
      [] OTHER -> "buildGenericPrompt"

\* C8: after generate-from-need with a non-empty need, the title and text shown
\* are those of the render function of the intent detectIntent returned for the
\* trimmed need, the generic one for an intent that has none of its own.
C8_IntentSelectsTemplate ==
    (handled = "need" /\ trim(needInput) # <<>>) =>
        LET built == Build(RenderFunctionOf(detectIntent(trim(needInput))),
                           trim(needInput), toneInput, lengthInput, formatInput)
        IN  /\ intent = detectIntent(trim(needInput))
            /\ promptTitle = built.title
            /\ promptText = built.text
            /\ resultDisplay = "block"

\* a need classified product_req was rendered
C8_Witness ==
    /\ handled = "need"
    /\ intent = "product_req"
    /\ resultDisplay = "block"
    /\ promptTitle # <<>>

\* C9 as claimed: either generation action with an empty or white-space-only need
\* shows the prompt-to-retry message, classifies nothing and renders nothing.
C9_EmptyNeedAsksToRetry ==
    (handled # "none" /\ trim(needInput) = <<>>) =>
        /\ ~uncaught
        /\ promptTitle = TellMeTitle /\ promptText = TellMeText
        /\ intent = "none" /\ match = 0

\* C9 as amended: with an empty or white-space-only need, generate-from-need shows
\* the prompt-to-retry message and generate-from-library shows the 'No library
\* match found' message; neither throws, classifies an intent or renders a template
\* or a library record.
C9_EmptyNeedShowsMessage ==
    (handled # "none" /\ trim(needInput) = <<>>) =>
        /\ ~uncaught
        /\ intent = "none" /\ match = 0
        /\ handled = "need" => promptTitle = TellMeTitle /\ promptText = TellMeText
        /\ handled = "library" => promptTitle = NoMatchTitle /\ promptText = NoMatchText

\* generate-from-library ran on a white-space-only need over a library that holds
\* a record and a null
C9_Witness ==
    /\ handled = "library"
    /\ needInput # <<>> /\ trim(needInput) = <<>>
    /\ \E i, j \in DOMAIN PROMPTS : PROMPTS[i] = JsNull /\ PROMPTS[j] = PlanningRecord
    /\ promptTitle = NoMatchTitle

====
